---- MODULE Spec2Model ----
(***************************************************************************)
(* Model of the SMTP client error handler policies of                      *)
(* src/postfix/src/smtp/smtp_trouble.c: smtp_site_fail, smtp_mesg_fail,    *)
(* smtp_rcpt_fail and smtp_stream_except acting on one delivery request.   *)
(* The defer/bounce collaborators are external: their result is an input   *)
(* of every call.                                                          *)
(***************************************************************************)
EXTENDS Integers, Sequences, FiniteSets, TLC

\* ---------------------------------------------------------------- bounds
NRcpt == 2
MaxCalls == 3
MaxCeiling == 3
MaxReads == 3

\* ---------------------------------------------------------------- inputs
Rcpts == 1..NRcpt
Codes == {250, 450, 550}
Reasons == {"too busy", "message rejected"}
Descriptions == {"sending DATA"}
Results == {0, 1}
Exceptions == {"SMTP_ERR_EOF", "SMTP_ERR_TIME", "SMTP_ERR_OTHER"}
KnownExceptions == {"SMTP_ERR_EOF", "SMTP_ERR_TIME"}
NULL == "NULL"
MAIL_ERROR_PROTOCOL == "MAIL_ERROR_PROTOCOL"
MAIL_ERROR_POLICY == "MAIL_ERROR_POLICY"

VARIABLES
    offset,         \* request->rcpt_list.info[r].offset, 0 = finalized
    final_server,   \* state->final_server
    status,         \* state->status
    error_mask,     \* state->error_mask, as the set of its raised flags
    hop_status,     \* request->hop_status, NULL or the cached reason
    panicked,       \* msg_panic() was called: the process is gone
    calls,          \* collaborator calls made by the last entry point call
    records,        \* per recipient: defer/bounce calls that returned 0
    completed,      \* per recipient: deliver_completed() calls
    last,           \* the last entry point call and the state it started in
    ncalls,         \* number of entry point calls so far
    dl              \* the deadline budget of the request in flight

vars == <<offset, final_server, status, error_mask, hop_status, panicked,
          calls, records, completed, last, ncalls, dl>>

\* The recipients whose marker says "not finalized yet".
PendingIn(off) == {r \in Rcpts : off[r] # 0}

\* The queue file offset a recipient record starts with (non-zero).
InitOffset(r) == 100 * r

\* ------------------------------------------------------------ arithmetic
\* C's a | b on two's complement integers.
RECURSIVE BitOr(_, _)
BitOr(a, b) ==
    IF a = 0 THEN b
    ELSE IF b = 0 THEN a
    ELSE IF a = -1 \/ b = -1 THEN -1
    ELSE 2 * BitOr(a \div 2, b \div 2)
         + (IF a % 2 = 1 \/ b % 2 = 1 THEN 1 ELSE 0)

\* ------------------------------------------------------- code classifier
SMTP_SOFT_AtLeast(code) == code >= 400

\* #define SMTP_SOFT(code) (((code) / 100) == 4)
SMTP_SOFT(code) == (code \div 100) = 4

\* #define SMTP_HARD(code) (((code) / 100) == 5)
SMTP_HARD(code) == (code \div 100) = 5

\* the class the two macros put a reply code in
Classify(code) ==
    IF SMTP_SOFT(code) THEN "Soft"
    ELSE IF SMTP_HARD(code) THEN "Hard"
    ELSE "Neither"

smtp_check_code_No555(mask, code) ==
    IF (~SMTP_SOFT(code) /\ ~SMTP_HARD(code))
       \/ (code >= 500 /\ code < 510)
    THEN mask \cup {MAIL_ERROR_PROTOCOL}
    ELSE mask

smtp_check_code_OffByOne(mask, code) ==
    IF (~SMTP_SOFT(code) /\ ~SMTP_HARD(code))
       \/ code = 555
       \/ (code > 500 /\ code < 510)
    THEN mask \cup {MAIL_ERROR_PROTOCOL}
    ELSE mask

smtp_check_code_NoClass(mask, code) ==
    IF code = 555 \/ (code >= 500 /\ code < 510)
    THEN mask \cup {MAIL_ERROR_PROTOCOL}
    ELSE mask

smtp_check_code(mask, code) ==
    IF (~SMTP_SOFT(code) /\ ~SMTP_HARD(code))
       \/ code = 555
       \/ (code >= 500 /\ code < 510)
    THEN mask \cup {MAIL_ERROR_PROTOCOL}
    ELSE mask

\* --------------------------------------------------------- policy pieces
SkipBranch_Inverted(soft_error, fs) == soft_error /\ fs # 0

\* "soft error, non-final server": the informational skip branch.
SkipBranch(soft_error, fs) == soft_error /\ fs = 0

Appender_AlwaysBounce(soft_error) == "bounce_append"

\* (soft_error ? defer_append : bounce_append)
Appender(soft_error) == IF soft_error THEN "defer_append" ELSE "bounce_append"

AppendCall(fn, r, off, why, result) ==
    [fn |-> fn, rcpt |-> r, offset |-> off, why |-> why, result |-> result]

CompletedCall(r, off) ==
    [fn |-> "deliver_completed", rcpt |-> r, offset |-> off,
     why |-> NULL, result |-> 0]

MarkOffset_Flag(off, result) == IF result = 0 THEN 0 ELSE 1

\* if (status == 0) { deliver_completed(state->src, rcpt->offset);
\*                    rcpt->offset = 0; }
MarkOffset(off, result) == IF result = 0 THEN 0 ELSE off

CompletedCalls(r, off, result) ==
    IF result = 0 THEN <<CompletedCall(r, off)>> ELSE <<>>

FoldStatus_Assign(st, result) == result

FoldStatus_Add(st, result) == st + result

\* state->status |= status
FoldStatus(st, result) == BitOr(st, result)

\* The recipient loop of smtp_site_fail and smtp_mesg_fail.
RECURSIVE DisposeAll(_, _, _, _, _, _, _)
DisposeAll(nrcpt, off, st, log, fn, why, res) ==
    IF nrcpt > NRcpt
    THEN [offset |-> off, status |-> st, calls |-> log]
    ELSE IF off[nrcpt] = 0
    THEN DisposeAll(nrcpt + 1, off, st, log, fn, why, res)
    ELSE DisposeAll(nrcpt + 1,
                    [off EXCEPT ![nrcpt] = MarkOffset(off[nrcpt], res[nrcpt])],
                    FoldStatus(st, res[nrcpt]),
                    log \o <<AppendCall(fn, nrcpt, off[nrcpt], why, res[nrcpt])>>
                        \o CompletedCalls(nrcpt, off[nrcpt], res[nrcpt]),
                    fn, why, res)

\* The recipient loop of smtp_stream_except: defer_append only.
RECURSIVE DeferAll(_, _, _, _, _, _)
DeferAll(nrcpt, off, st, log, why, res) ==
    IF nrcpt > NRcpt
    THEN [offset |-> off, status |-> st, calls |-> log]
    ELSE IF off[nrcpt] = 0
    THEN DeferAll(nrcpt + 1, off, st, log, why, res)
    ELSE DeferAll(nrcpt + 1, off, FoldStatus(st, res[nrcpt]),
                  log \o <<AppendCall("defer_append", nrcpt, off[nrcpt],
                                      why, res[nrcpt])>>,
                  why, res)

SiteHopStatus_Overwrite(soft_error, hop, why) ==
    IF soft_error THEN why ELSE hop

\* if (soft_error && request->hop_status == 0) request->hop_status = why
SiteHopStatus(soft_error, hop, why) ==
    IF soft_error /\ hop = NULL THEN why ELSE hop

RaiseFinalServer_Keep(fs) == fs

RaiseFinalServer_Toggle(fs) == 1 - fs

\* state->final_server = 1 at the end of the disposition branch
RaiseFinalServer(fs) == 1

RcptFinalServer_Raise(fs) == 1

\* smtp_rcpt_fail: "So don't touch that final mail server flag!"
RcptFinalServer(fs) == fs

StreamFinalServer_Clear(fs) == 0

StreamFinalServer_Raise(fs) == 1

\* smtp_stream_except never assigns state->final_server
StreamFinalServer(fs) == fs

UnknownException_Never(code) == FALSE

\* switch (code) { default: msg_panic(...) }
UnknownException(code) == code \notin KnownExceptions

\* the reason smtp_stream_except composes for a known exception
StreamWhy(code, description) ==
    IF code = "SMTP_ERR_EOF"
    THEN <<"lost connection with", "while", description>>
    ELSE <<"conversation with", "timed out while", description>>

\* ------------------------------------------------------------- bookkeeping
CountCalls(log, r, fns, okOnly) ==
    Cardinality({i \in 1..Len(log) :
                    /\ log[i].rcpt = r
                    /\ log[i].fn \in fns
                    /\ (okOnly => log[i].result = 0)})

Snapshot ==
    [offset |-> offset, final_server |-> final_server, status |-> status,
     error_mask |-> error_mask, hop_status |-> hop_status]

Observe(op, code, rcpt, why, log) ==
    /\ calls' = log
    /\ records' = [r \in Rcpts |-> records[r]
                      + CountCalls(log, r, {"defer_append", "bounce_append"}, TRUE)]
    /\ completed' = [r \in Rcpts |-> completed[r]
                      + CountCalls(log, r, {"deliver_completed"}, FALSE)]
    /\ last' = [op |-> op, code |-> code, rcpt |-> rcpt, why |-> why,
                pre |-> Snapshot]
    /\ ncalls' = ncalls + 1
    /\ UNCHANGED dl

\* no request is in flight: the deadline budget is not in use
NoDeadline ==
    [remaining |-> 0, ceiling |-> 0, floor_rate |-> 0, timed_out |-> FALSE,
     bytes |-> 0, elapsed |-> 0, pre |-> 0, nreads |-> 0,
     total_elapsed |-> 0, total_grant |-> 0]

\* ------------------------------------------------------------------ state
Init ==
    /\ offset = [r \in Rcpts |-> InitOffset(r)]
    /\ final_server \in {0, 1}
    /\ status = 0
    /\ error_mask \in {{}, {MAIL_ERROR_POLICY}}
    /\ hop_status = NULL
    /\ panicked = FALSE
    /\ calls = <<>>
    /\ records = [r \in Rcpts |-> 0]
    /\ completed = [r \in Rcpts |-> 0]
    /\ last = [op |-> "none", code |-> 0, rcpt |-> 0, why |-> NULL,
               pre |-> Snapshot]
    /\ ncalls = 0
    /\ dl = NoDeadline

\* ---------------------------------------------------------- entry points
smtp_site_fail(code, why, res) ==
    LET soft_error == SMTP_SOFT(code)
        d == DisposeAll(1, offset, status, <<>>, Appender(soft_error), why, res)
    IN  /\ ~panicked
        /\ ncalls < MaxCalls
        /\ IF SkipBranch(soft_error, final_server)
           THEN /\ status' = BitOr(status, -1)
                /\ UNCHANGED <<offset, hop_status, final_server>>
                /\ Observe("smtp_site_fail", code, 0, why, <<>>)
           ELSE /\ offset' = d.offset
                /\ status' = d.status
                /\ hop_status' = SiteHopStatus(soft_error, hop_status, why)
                /\ final_server' = RaiseFinalServer(final_server)
                /\ Observe("smtp_site_fail", code, 0, why, d.calls)
        /\ error_mask' = smtp_check_code(error_mask, code)
        /\ UNCHANGED panicked

smtp_mesg_fail(code, why, res) ==
    LET soft_error == SMTP_SOFT(code)
        d == DisposeAll(1, offset, status, <<>>, Appender(soft_error), why, res)
    IN  /\ ~panicked
        /\ ncalls < MaxCalls
        /\ IF SkipBranch(soft_error, final_server)
           THEN /\ status' = BitOr(status, -1)
                /\ UNCHANGED <<offset, final_server>>
                /\ Observe("smtp_mesg_fail", code, 0, why, <<>>)
           ELSE /\ offset' = d.offset
                /\ status' = d.status
                /\ final_server' = RaiseFinalServer(final_server)
                /\ Observe("smtp_mesg_fail", code, 0, why, d.calls)
        /\ error_mask' = smtp_check_code(error_mask, code)
        /\ UNCHANGED <<hop_status, panicked>>

smtp_rcpt_fail(code, rcpt, why, res) ==
    LET soft_error == SMTP_SOFT(code)
        skip == SkipBranch(soft_error, final_server)
        result == IF skip THEN -1 ELSE res
        log == IF skip THEN <<>>
               ELSE <<AppendCall(Appender(soft_error), rcpt, offset[rcpt],
                                 why, result)>>
                    \o CompletedCalls(rcpt, offset[rcpt], result)
    IN  /\ ~panicked
        /\ ncalls < MaxCalls
        /\ offset' = IF skip THEN offset
                     ELSE [offset EXCEPT ![rcpt] = MarkOffset(offset[rcpt], result)]
        /\ error_mask' = smtp_check_code(error_mask, code)
        /\ status' = FoldStatus(status, result)
        /\ final_server' = RcptFinalServer(final_server)
        /\ Observe("smtp_rcpt_fail", code, rcpt, why, log)
        /\ UNCHANGED <<hop_status, panicked>>

smtp_stream_except(code, description, res) ==
    LET why == StreamWhy(code, description)
        d == DeferAll(1, offset, status, <<>>, why, res)
    IN  /\ ~panicked
        /\ ncalls < MaxCalls
        /\ IF UnknownException(code)
           THEN /\ panicked' = TRUE
                /\ UNCHANGED <<offset, status, final_server>>
                /\ Observe("smtp_stream_except", code, 0, NULL, <<>>)
           ELSE /\ UNCHANGED panicked
                /\ final_server' = StreamFinalServer(final_server)
                /\ IF final_server = 0
                   THEN /\ status' = BitOr(status, -1)
                        /\ UNCHANGED offset
                        /\ Observe("smtp_stream_except", code, 0, why, <<>>)
                   ELSE /\ offset' = d.offset
                        /\ status' = d.status
                        /\ Observe("smtp_stream_except", code, 0, why, d.calls)
        /\ UNCHANGED <<error_mask, hop_status>>

\* The results the collaborators return during one call: one for every
\* recipient the call offers, none when it offers nobody.
LoopResults(skip) == IF skip THEN {<<>>} ELSE [PendingIn(offset) -> Results]

SiteFail == \E code \in Codes, why \in Reasons :
                \E res \in LoopResults(SkipBranch(SMTP_SOFT(code), final_server)) :
                    smtp_site_fail(code, why, res)

MesgFail == \E code \in Codes, why \in Reasons :
                \E res \in LoopResults(SkipBranch(SMTP_SOFT(code), final_server)) :
                    smtp_mesg_fail(code, why, res)

RcptFail == \E code \in Codes, rcpt \in Rcpts, why \in Reasons :
                \E res \in (IF SkipBranch(SMTP_SOFT(code), final_server)
                            THEN {0} ELSE Results) :
                    smtp_rcpt_fail(code, rcpt, why, res)

StreamExcept == \E code \in Exceptions, description \in Descriptions :
                    \E res \in LoopResults(UnknownException(code)
                                             \/ final_server = 0) :
                        smtp_stream_except(code, description, res)

Next == SiteFail \/ MesgFail \/ RcptFail \/ StreamExcept

Spec == Init /\ [][Next]_vars

\* The same request when the session driver reports a recipient failure only
\* for recipients that are still pending.
RcptFailPending ==
    \E code \in Codes, rcpt \in PendingIn(offset), why \in Reasons :
        \E res \in (IF SkipBranch(SMTP_SOFT(code), final_server)
                    THEN {0} ELSE Results) :
            smtp_rcpt_fail(code, rcpt, why, res)

NextPending == SiteFail \/ MesgFail \/ RcptFailPending \/ StreamExcept

SpecPending == Init /\ [][NextPending]_vars

\* One failure report with any three digit reply code, at any point of a
\* session: the error mask may hold flags raised earlier.
ReplyCodes == 100..999

InitCodes ==
    /\ offset = [r \in Rcpts |-> InitOffset(r)]
    /\ final_server \in {0, 1}
    /\ status = 0
    /\ error_mask \in SUBSET {MAIL_ERROR_PROTOCOL, MAIL_ERROR_POLICY}
    /\ hop_status = NULL
    /\ panicked = FALSE
    /\ calls = <<>>
    /\ records = [r \in Rcpts |-> 0]
    /\ completed = [r \in Rcpts |-> 0]
    /\ last = [op |-> "none", code |-> 0, rcpt |-> 0, why |-> NULL,
               pre |-> Snapshot]
    /\ ncalls = 0
    /\ dl = NoDeadline

SiteFailCode ==
    /\ ncalls = 0
    /\ \E code \in ReplyCodes :
          \E res \in LoopResults(SkipBranch(SMTP_SOFT(code), final_server)) :
              smtp_site_fail(code, "too busy", res)

MesgFailCode ==
    /\ ncalls = 0
    /\ \E code \in ReplyCodes :
          \E res \in LoopResults(SkipBranch(SMTP_SOFT(code), final_server)) :
              smtp_mesg_fail(code, "message rejected", res)

RcptFailCode ==
    /\ ncalls = 0
    /\ \E code \in ReplyCodes, rcpt \in Rcpts :
          \E res \in (IF SkipBranch(SMTP_SOFT(code), final_server)
                      THEN {0} ELSE Results) :
              smtp_rcpt_fail(code, rcpt, "message rejected", res)

NextCodes == SiteFailCode \/ MesgFailCode \/ RcptFailCode

SpecCodes == InitCodes /\ [][NextCodes]_vars

\* ------------------------------------------------------- deadline tracker
\* Time is counted in whole seconds: the budget of one request/response
\* round trip, the elapsed time of a read and the floor rate grant.
SmallCeilings == 1..MaxCeiling
Ceilings == SmallCeilings \cup {100}
FloorRates == {0, 2, 500}
ReadBytes == {0, 1, 1000}
ReadElapsed == {1, 3, 50, 60}

\* start(ceiling, floor_rate)
DlStart(ceiling, floor_rate) ==
    [remaining |-> ceiling, ceiling |-> ceiling, floor_rate |-> floor_rate,
     timed_out |-> FALSE, bytes |-> 0, elapsed |-> 0, pre |-> ceiling,
     nreads |-> 0, total_elapsed |-> 0, total_grant |-> 0]

Grant_RoundUp(bytes, floor_rate) ==
    IF floor_rate # 0 /\ bytes > 0
    THEN (bytes + floor_rate - 1) \div floor_rate
    ELSE 0

\* the seconds N bytes buy back: N / min_data_rate, nothing when the floor
\* rate is disabled (0) or nothing was transferred
Grant(bytes, floor_rate) ==
    IF floor_rate # 0 /\ bytes > 0 THEN bytes \div floor_rate ELSE 0

DlSubtract_None(rem, elapsed) == rem

\* "the deadline is decreased by the elapsed time of that read operation"
DlSubtract(rem, elapsed) == rem - elapsed

\* "the deadline is increased by N/min_data_rate seconds"
DlExtend(rem, bytes, floor_rate) == rem + Grant(bytes, floor_rate)

DlClamp_None(rem, ceiling) == rem

\* "the deadline is never increased beyond the timeout value"
DlClamp(rem, ceiling) == IF rem > ceiling THEN ceiling ELSE rem

on_read_ClampFirst(rem, ceiling, floor_rate, bytes, elapsed) ==
    DlExtend(DlClamp(DlSubtract(rem, elapsed), ceiling), bytes, floor_rate)

\* on_read(bytes_transferred, elapsed): subtract, then extend, then clamp
on_read(rem, ceiling, floor_rate, bytes, elapsed) ==
    DlClamp(DlExtend(DlSubtract(rem, elapsed), bytes, floor_rate), ceiling)

MayRead_Always(rem) == TRUE

\* remaining() > 0: Active, the caller goes on reading; otherwise the
\* request is timed out
MayRead(rem) == rem > 0

\* a read that moves bytes slower than the floor rate, or stalls
SlowRead(bytes, elapsed, floor_rate) ==
    bytes < floor_rate * elapsed \/ (bytes = 0 /\ elapsed > 0)

SmtpIdle ==
    /\ offset = [r \in Rcpts |-> InitOffset(r)]
    /\ final_server = 0
    /\ status = 0
    /\ error_mask = {}
    /\ hop_status = NULL
    /\ panicked = FALSE
    /\ calls = <<>>
    /\ records = [r \in Rcpts |-> 0]
    /\ completed = [r \in Rcpts |-> 0]
    /\ last = [op |-> "none", code |-> 0, rcpt |-> 0, why |-> NULL,
               pre |-> Snapshot]
    /\ ncalls = 0

SmtpVars == <<offset, final_server, status, error_mask, hop_status, panicked,
              calls, records, completed, last, ncalls>>

InitDeadline ==
    /\ SmtpIdle
    /\ \E ceiling \in Ceilings, floor_rate \in FloorRates :
          dl = DlStart(ceiling, floor_rate)

\* one read operation of the I/O loop followed by on_read()
ReadStep(bytes, elapsed) ==
    /\ MayRead(dl.remaining)
    /\ ~dl.timed_out
    /\ dl' = [dl EXCEPT
                !.remaining = on_read(dl.remaining, dl.ceiling, dl.floor_rate,
                                      bytes, elapsed),
                !.bytes = bytes,
                !.elapsed = elapsed,
                !.pre = dl.remaining,
                !.nreads = dl.nreads + 1,
                !.total_elapsed = dl.total_elapsed + elapsed,
                !.total_grant = dl.total_grant + Grant(bytes, dl.floor_rate)]
    /\ UNCHANGED SmtpVars

Read ==
    /\ dl.nreads < MaxReads
    /\ \E bytes \in ReadBytes, elapsed \in ReadElapsed : ReadStep(bytes, elapsed)

\* remaining() <= 0: the caller raises the stream exception, kind Timeout
RaiseTimeout ==
    /\ ~MayRead(dl.remaining)
    /\ ~dl.timed_out
    /\ dl' = [dl EXCEPT !.timed_out = TRUE]
    /\ UNCHANGED SmtpVars

NextDeadline == Read \/ RaiseTimeout

SpecDeadline == InitDeadline /\ [][NextDeadline]_vars

\* A peer that trickles: every read is slower than the floor rate. The I/O
\* loop keeps reading until the request is over.
InitTrickle ==
    /\ SmtpIdle
    /\ \E ceiling \in SmallCeilings, floor_rate \in FloorRates :
          dl = DlStart(ceiling, floor_rate)

TrickleRead ==
    \E bytes \in ReadBytes, elapsed \in ReadElapsed :
        /\ SlowRead(bytes, elapsed, dl.floor_rate)
        /\ ReadStep(bytes, elapsed)

NextTrickle == TrickleRead \/ RaiseTimeout

SpecTrickle == InitTrickle /\ [][NextTrickle]_vars /\ WF_vars(TrickleRead)

TypeOK ==
    /\ offset \in [Rcpts -> {0} \cup {InitOffset(r) : r \in Rcpts}]
    /\ final_server \in {0, 1}
    /\ status \in Int
    /\ panicked \in BOOLEAN
    /\ ncalls \in 0..MaxCalls

\* ------------------------------------------------------------ vocabulary
Pre == last.pre

Appends == {"defer_append", "bounce_append"}

\* positions in the last call's log of the defer/bounce calls for r
AppendsFor(r) == {i \in 1..Len(calls) : calls[i].fn \in Appends /\ calls[i].rcpt = r}

CompletedFor(r) ==
    {i \in 1..Len(calls) : calls[i].fn = "deliver_completed" /\ calls[i].rcpt = r}

SiteOrMesg == last.op \in {"smtp_site_fail", "smtp_mesg_fail"}

\* the call took the branch the claims call the disposition branch
HardOrSoftFinal ==
    SMTP_HARD(last.code) \/ (SMTP_SOFT(last.code) /\ Pre.final_server = 1)

SoftNotFinal == SMTP_SOFT(last.code) /\ Pre.final_server = 0

StreamFinal ==
    /\ last.op = "smtp_stream_except"
    /\ last.code \in KnownExceptions
    /\ Pre.final_server = 1

\* ------------------------------------------------------------------- C1
\* C1: over every sequence of entry point calls no recipient is finalized
\* twice: each recipient gets at most one defer/bounce record that returned
\* 0, and finalized + pending recipients always equals N.
C1_NoRecipientFinalizedTwice ==
    /\ \A r \in Rcpts : records[r] <= 1
    /\ Cardinality(PendingIn(offset))
         + Cardinality(Rcpts \ PendingIn(offset)) = NRcpt

\* ------------------------------------------------------------------- C2
\* C2: the final server flag is monotonic: a step of any entry point that
\* starts with the flag raised ends with the flag raised.
C2_FinalServerMonotonic == [][final_server = 1 => final_server' = 1]_vars

C2_Witness ==
    /\ last.op = "smtp_site_fail"
    /\ SMTP_SOFT(last.code)
    /\ Pre.final_server = 1
    /\ final_server = 1
    /\ ncalls >= 2

\* ------------------------------------------------------------------- C3
\* C3: smtp_site_fail/smtp_mesg_fail with a hard code, or a soft code on the
\* final server, offer every recipient pending at the call exactly once
\* (defer for soft, bounce for hard, with the given reason and the
\* recipient's offset), offer no other recipient, and leave no recipient
\* pending when every such call returned 0.
C3_DispositionOffersEveryPending ==
    (SiteOrMesg /\ HardOrSoftFinal) =>
        /\ \A r \in PendingIn(Pre.offset) :
              /\ Cardinality(AppendsFor(r)) = 1
              /\ \A i \in AppendsFor(r) :
                    /\ calls[i].fn = (IF SMTP_SOFT(last.code)
                                      THEN "defer_append" ELSE "bounce_append")
                    /\ calls[i].why = last.why
                    /\ calls[i].offset = Pre.offset[r]
        /\ \A r \in Rcpts \ PendingIn(Pre.offset) : AppendsFor(r) = {}
        /\ (\A i \in 1..Len(calls) : calls[i].result = 0)
              => PendingIn(offset) = {}

C3_Witness ==
    /\ last.op = "smtp_mesg_fail"
    /\ last.code = 550
    /\ PendingIn(Pre.offset) = Rcpts
    /\ PendingIn(offset) = {}
    /\ \A r \in Rcpts : \E i \in AppendsFor(r) : calls[i].fn = "bounce_append"
    /\ final_server = 1

\* ------------------------------------------------------------------- C4
\* C4: smtp_site_fail/smtp_mesg_fail with a soft code while the final server
\* flag is down take the skip branch: no collaborator call, all markers, the
\* flag and the hop status unchanged, and only the soft-skip sentinel folded
\* into the status.
C4_SoftSkipFrame ==
    (SiteOrMesg /\ SoftNotFinal) =>
        /\ calls = <<>>
        /\ offset = Pre.offset
        /\ final_server = 0
        /\ hop_status = Pre.hop_status
        /\ status = BitOr(Pre.status, -1)

C4_Witness ==
    /\ SiteOrMesg
    /\ SoftNotFinal
    /\ PendingIn(offset) = Rcpts
    /\ status = -1

\* ------------------------------------------------------------------- C5
\* C5: smtp_stream_except with a known exception on the final server defers
\* every pending recipient, never bounces, and on a 0 result clears the
\* recipient's offset and notifies deliver_completed with the original
\* offset, so that nobody is pending when all defers succeed.
C5_StreamExceptFinalizes ==
    StreamFinal =>
        /\ \A r \in PendingIn(Pre.offset) :
              /\ \E i \in AppendsFor(r) : calls[i].fn = "defer_append"
              /\ \A i \in AppendsFor(r) :
                    /\ calls[i].fn = "defer_append"
                    /\ calls[i].result = 0 =>
                          /\ offset[r] = 0
                          /\ \E j \in CompletedFor(r) :
                                calls[j].offset = Pre.offset[r]
        /\ (\A i \in 1..Len(calls) : calls[i].result = 0)
              => PendingIn(offset) = {}

\* ------------------------------------------------------------------- C6
\* C6: smtp_stream_except while the final server flag is down finalizes
\* nothing: no collaborator call, all markers unchanged, flag still down.
C6_StreamSkipFrame ==
    (last.op = "smtp_stream_except" /\ Pre.final_server = 0) =>
        /\ calls = <<>>
        /\ offset = Pre.offset
        /\ final_server = 0

C6_Witness ==
    /\ last.op = "smtp_stream_except"
    /\ last.code = "SMTP_ERR_TIME"
    /\ Pre.final_server = 0
    /\ PendingIn(offset) # {}
    /\ status = -1

\* ------------------------------------------------------------------- C7
\* C7: smtp_rcpt_fail never changes the final server flag, the hop status or
\* another recipient's marker, and in its disposition branch offers exactly
\* the given recipient, to defer for a soft and to bounce for a hard code.
C7_RcptFailFrame ==
    (last.op = "smtp_rcpt_fail") =>
        /\ final_server = Pre.final_server
        /\ hop_status = Pre.hop_status
        /\ \A r \in Rcpts \ {last.rcpt} : offset[r] = Pre.offset[r]
        /\ HardOrSoftFinal =>
              /\ Cardinality(AppendsFor(last.rcpt)) = 1
              /\ \A r \in Rcpts \ {last.rcpt} : AppendsFor(r) = {}
              /\ \A i \in AppendsFor(last.rcpt) :
                    calls[i].fn = (IF SMTP_SOFT(last.code)
                                   THEN "defer_append" ELSE "bounce_append")

C7_Witness ==
    /\ last.op = "smtp_rcpt_fail"
    /\ SMTP_HARD(last.code)
    /\ Pre.final_server = 0
    /\ final_server = 0
    /\ offset[last.rcpt] = 0
    /\ \E r \in Rcpts \ {last.rcpt} : offset[r] # 0

\* ------------------------------------------------------------------- C8
\* C8: whenever smtp_site_fail/smtp_mesg_fail take the disposition branch the
\* final server flag is raised afterwards, also with nobody pending and also
\* when every defer/bounce call failed.
C8_DispositionRaisesFinalServer ==
    (SiteOrMesg /\ HardOrSoftFinal) => final_server = 1

C8_Witness ==
    /\ SiteOrMesg
    /\ SMTP_HARD(last.code)
    /\ Pre.final_server = 0
    /\ PendingIn(Pre.offset) = {}
    /\ calls = <<>>
    /\ final_server = 1

\* ------------------------------------------------------------------- C9
\* C9: a defer/bounce call that returns non-zero leaves that recipient's
\* marker untouched, is followed by no deliver_completed for it, has its
\* result or-ed into the status, and does not stop the loop: the recipients
\* after it are still offered.
C9_FailedAppendKeepsPending ==
    /\ \A i \in 1..Len(calls) :
          (calls[i].fn \in Appends /\ calls[i].result # 0) =>
              /\ offset[calls[i].rcpt] = Pre.offset[calls[i].rcpt]
              /\ CompletedFor(calls[i].rcpt) = {}
              /\ BitOr(status, calls[i].result) = status
              /\ status # 0
    /\ ((SiteOrMesg /\ ~SoftNotFinal) \/ StreamFinal) =>
          \A r \in PendingIn(Pre.offset) : AppendsFor(r) # {}

C9_Witness ==
    /\ SiteOrMesg
    /\ Len(calls) >= 2
    /\ calls[1].fn \in Appends
    /\ calls[1].result # 0
    /\ offset[calls[1].rcpt] # 0
    /\ \E i \in 2..Len(calls) : calls[i].fn \in Appends /\ calls[i].result = 0
    /\ Pre.status = 0
    /\ status = 1

\* ------------------------------------------------------------------ C10
\* C10: deliver_completed is called for a recipient only right after a
\* defer/bounce call for the same recipient returned 0, with that
\* recipient's original non-zero offset, and at most once per recipient.
C10_CompletedOnceAfterSuccess ==
    /\ \A i \in 1..Len(calls) :
          calls[i].fn = "deliver_completed" =>
              /\ i > 1
              /\ calls[i - 1].fn \in Appends
              /\ calls[i - 1].rcpt = calls[i].rcpt
              /\ calls[i - 1].result = 0
              /\ calls[i].offset = InitOffset(calls[i].rcpt)
              /\ calls[i].offset # 0
    /\ \A r \in Rcpts : completed[r] <= 1

\* ------------------------------------------------------------------ C11
\* C11: the hop status is written only by smtp_site_fail, only in its
\* disposition branch, only for a soft code and only when nothing is cached
\* yet (it then holds the given reason); a cached hop status is never
\* overwritten, and smtp_mesg_fail, smtp_rcpt_fail, smtp_stream_except and
\* the skip branches never set it.
C11_HopStatusWrittenOnce ==
    /\ hop_status # Pre.hop_status =>
          /\ last.op = "smtp_site_fail"
          /\ SMTP_SOFT(last.code)
          /\ Pre.final_server = 1
          /\ Pre.hop_status = NULL
          /\ hop_status = last.why
    /\ Pre.hop_status # NULL => hop_status = Pre.hop_status
    /\ (last.op = "smtp_site_fail" /\ SMTP_SOFT(last.code)
          /\ Pre.final_server = 1 /\ Pre.hop_status = NULL) =>
              hop_status = last.why

\* a soft smtp_site_fail was skipped earlier (status -1), the flag was raised
\* since, and this soft smtp_site_fail caches its own reason
C11_Witness ==
    /\ last.op = "smtp_site_fail"
    /\ SMTP_SOFT(last.code)
    /\ Pre.final_server = 1
    /\ Pre.status = -1
    /\ Pre.hop_status = NULL
    /\ hop_status = last.why
    /\ ncalls = 3

\* ------------------------------------------------------------------ C12
\* C12: smtp_stream_except with an exception other than connection lost or
\* timeout panics whatever the final server flag is, before any collaborator
\* call and before any marker, status, error mask, hop status or flag is
\* modified; nothing panics otherwise.
C12_UnknownExceptionPanics ==
    /\ (last.op = "smtp_stream_except" /\ last.code \notin KnownExceptions) =>
          /\ panicked
          /\ calls = <<>>
          /\ offset = Pre.offset
          /\ status = Pre.status
          /\ error_mask = Pre.error_mask
          /\ final_server = Pre.final_server
          /\ hop_status = Pre.hop_status
    /\ panicked =>
          (last.op = "smtp_stream_except" /\ last.code \notin KnownExceptions)

C12_Witness ==
    /\ last.op = "smtp_stream_except"
    /\ last.code = "SMTP_ERR_OTHER"
    /\ Pre.final_server = 1
    /\ PendingIn(offset) # {}
    /\ panicked

\* ------------------------------------------------------------------ C13
\* the first digit of a three digit reply code
FirstDigit(code) == CHOOSE d \in 1..9 : 100 * d <= code /\ code < 100 * (d + 1)

CodeCall == last.op \in {"smtp_site_fail", "smtp_mesg_fail", "smtp_rcpt_fail"}

\* C13: for every three digit reply code the class is Soft exactly when the
\* first digit is 4, Hard exactly when it is 5 and Neither otherwise (450,
\* 421, 499 soft; 550, 552, 503, 501 hard; 250, 354 neither), and the entry
\* points defer for a soft code and bounce for a hard one.
C13_ClassifierByFirstDigit ==
    /\ \A c \in {450, 421, 499} : Classify(c) = "Soft"
    /\ \A c \in {550, 552, 503, 501} : Classify(c) = "Hard"
    /\ \A c \in {250, 354} : Classify(c) = "Neither"
    /\ CodeCall =>
          /\ Classify(last.code) = "Soft" <=> FirstDigit(last.code) = 4
          /\ Classify(last.code) = "Hard" <=> FirstDigit(last.code) = 5
          /\ Classify(last.code) = "Neither" <=> FirstDigit(last.code) \notin {4, 5}
          /\ \A i \in 1..Len(calls) :
                calls[i].fn \in Appends =>
                    /\ FirstDigit(last.code) = 4 => calls[i].fn = "defer_append"
                    /\ FirstDigit(last.code) = 5 => calls[i].fn = "bounce_append"
          /\ (last.op = "smtp_rcpt_fail" \/ PendingIn(Pre.offset) # {}) =>
                /\ FirstDigit(last.code) = 5 => calls # <<>>
                /\ (FirstDigit(last.code) = 4 /\ Pre.final_server = 1) => calls # <<>>
                /\ (FirstDigit(last.code) = 4 /\ Pre.final_server = 0) => calls = <<>>

C13_Witness ==
    /\ last.op = "smtp_site_fail"
    /\ last.code = 499
    /\ Pre.final_server = 1
    /\ Len(calls) >= NRcpt
    /\ \A i \in 1..Len(calls) :
          calls[i].fn \in Appends => calls[i].fn = "defer_append"

\* ------------------------------------------------------------------ C14
\* C14 as stated: reply code 555 is neither Soft nor Hard while it is flagged
\* as a protocol anomaly.
C14_Code555IsNeither ==
    (CodeCall /\ last.code = 555) =>
        /\ Classify(last.code) = "Neither"
        /\ MAIL_ERROR_PROTOCOL \in error_mask

\* C14 amended: reply code 555 is Hard (its first digit is 5: the recipients
\* are bounced, smtp_site_fail and smtp_mesg_fail raise the final server
\* flag) and it is flagged as a protocol anomaly.
C14_Code555IsHardAnomaly ==
    (CodeCall /\ last.code = 555) =>
        /\ Classify(last.code) = "Hard"
        /\ MAIL_ERROR_PROTOCOL \in error_mask
        /\ \A i \in 1..Len(calls) :
              calls[i].fn \in Appends => calls[i].fn = "bounce_append"
        /\ SiteOrMesg => (calls # <<>> /\ final_server = 1)

C14_Witness ==
    /\ last.op = "smtp_rcpt_fail"
    /\ last.code = 555
    /\ Pre.final_server = 0
    /\ MAIL_ERROR_PROTOCOL \notin Pre.error_mask
    /\ MAIL_ERROR_PROTOCOL \in error_mask
    /\ calls # <<>>
    /\ calls[1].fn = "bounce_append"

\* ------------------------------------------------------------------ C15
\* a reply code that suggests a protocol error, in the words of the claim
Anomaly(code) ==
    \/ FirstDigit(code) \notin {4, 5}
    \/ code = 555
    \/ (500 <= code /\ code <= 509)

\* C15: after smtp_site_fail, smtp_mesg_fail or smtp_rcpt_fail with code c,
\* on either branch, the protocol error flag is raised iff it was raised
\* before or c is an anomaly (class digit neither 4 nor 5, or 555, or
\* 500..509); no other flag changes and the flag is never cleared.
C15_ProtocolErrorFlag ==
    CodeCall =>
        /\ MAIL_ERROR_PROTOCOL \in error_mask <=>
              (MAIL_ERROR_PROTOCOL \in Pre.error_mask \/ Anomaly(last.code))
        /\ error_mask \ {MAIL_ERROR_PROTOCOL}
              = Pre.error_mask \ {MAIL_ERROR_PROTOCOL}

C15_Witness ==
    /\ last.op = "smtp_mesg_fail"
    /\ last.code = 500
    /\ Pre.error_mask = {MAIL_ERROR_POLICY}
    /\ error_mask = {MAIL_ERROR_POLICY, MAIL_ERROR_PROTOCOL}

\* ------------------------------------------------------------------ C16
\* C16: after start and after any sequence of reads the remaining budget
\* never exceeds the ceiling: the floor rate extension never lifts the
\* deadline above the timeout value.
C16_RemainingWithinCeiling == dl.remaining <= dl.ceiling

\* a read whose grant would have lifted the budget above the ceiling
C16_Witness ==
    /\ dl.nreads >= 2
    /\ dl.pre - dl.elapsed + Grant(dl.bytes, dl.floor_rate) > dl.ceiling
    /\ dl.remaining = dl.ceiling

\* ------------------------------------------------------------------ C17
Min(a, b) == IF a <= b THEN a ELSE b

ReadIs(ceiling, floor_rate, pre, bytes, elapsed) ==
    /\ dl.nreads >= 1
    /\ dl.ceiling = ceiling
    /\ dl.floor_rate = floor_rate
    /\ dl.pre = pre
    /\ dl.bytes = bytes
    /\ dl.elapsed = elapsed

\* C17: every read sets remaining to min(ceiling, remaining - elapsed +
\* grant), grant being bytes / floor_rate when the floor rate is non-zero and
\* bytes > 0, and 0 otherwise; with ceiling 100 and floor rate 500, from 100 a
\* 1000 byte read of 3 s gives 99 and a 0 byte read of 50 s gives 50, and
\* from 50 a 0 byte read of 60 s gives -10, which is Exhausted.
C17_OnReadFormula ==
    /\ dl.nreads >= 1 =>
          /\ (dl.floor_rate # 0 /\ dl.bytes > 0) =>
                dl.remaining = Min(dl.ceiling, dl.pre - dl.elapsed
                                     + (dl.bytes \div dl.floor_rate))
          /\ (dl.floor_rate = 0 \/ dl.bytes = 0) =>
                dl.remaining = Min(dl.ceiling, dl.pre - dl.elapsed)
    /\ ReadIs(100, 500, 100, 1000, 3) => dl.remaining = 99
    /\ ReadIs(100, 500, 100, 0, 50) => dl.remaining = 50
    /\ ReadIs(100, 500, 50, 0, 60) => (dl.remaining = -10 /\ ~MayRead(dl.remaining))

C17_Witness ==
    /\ ReadIs(100, 500, 50, 0, 60)
    /\ dl.nreads = 2
    /\ dl.total_elapsed = 110
    /\ dl.remaining = -10

\* ------------------------------------------------------------------ C18
\* C18 as stated: the elapsed time accumulated while the tracker is Active
\* never exceeds the ceiling, however many extensions accrue.
C18_ElapsedWithinCeiling ==
    MayRead(dl.remaining) => dl.total_elapsed <= dl.ceiling

\* C18 amended: the elapsed time accumulated while the tracker is Active is
\* less than the ceiling plus the sum of the floor rate grants; the ceiling
\* alone bounds it only as long as no grant accrues.
C18_ElapsedWithinCeilingPlusGrants ==
    /\ dl.remaining <= dl.ceiling - dl.total_elapsed + dl.total_grant
    /\ MayRead(dl.remaining) =>
          dl.total_elapsed < dl.ceiling + dl.total_grant
    /\ (MayRead(dl.remaining) /\ dl.total_grant = 0) =>
          dl.total_elapsed < dl.ceiling

C18_Witness ==
    /\ MayRead(dl.remaining)
    /\ dl.total_elapsed > dl.ceiling
    /\ dl.total_grant > 0
    /\ dl.nreads >= 2

C20_TrickleExhausts ==
    /\ [][dl'.nreads > dl.nreads => dl'.remaining < dl.remaining]_vars
    /\ <>(dl.remaining <= 0)

\* a slow read that did transfer bytes and earned a grant, and the budget
\* ran out all the same
C20_Witness ==
    /\ dl.nreads >= 2
    /\ dl.total_grant > 0
    /\ dl.remaining <= 0
    /\ dl.timed_out

\* ------------------------------------------------------------------ C21
\* C21: a recipient's marker, once zero, is never non-zero again: every step
\* of every entry point leaves an offset as it was or sets it to zero.
C21_MarkerStaysZero ==
    [][\A r \in Rcpts : /\ offset[r] = 0 => offset'[r] = 0
                        /\ offset'[r] \in {offset[r], 0}]_vars

\* a finalized recipient was offered again, the call failed, and the marker
\* is still zero
C21_Witness ==
    /\ last.op = "smtp_rcpt_fail"
    /\ Pre.offset[last.rcpt] = 0
    /\ calls # <<>>
    /\ calls[1].result # 0
    /\ offset[last.rcpt] = 0

\* ------------------------------------------------------------------ C22
\* C22: no entry point calls defer/bounce or deliver_completed for a
\* recipient whose offset is zero, smtp_rcpt_fail for any recipient of the
\* request included.
C22_ZeroMarkerNeverOffered ==
    \A i \in 1..Len(calls) :
        /\ Pre.offset[calls[i].rcpt] # 0
        /\ calls[i].offset # 0

\* ------------------------------------------------------------------ C23
\* the last call took an informational skip branch
TookSkipBranch ==
    \/ (CodeCall /\ SoftNotFinal)
    \/ (last.op = "smtp_stream_except" /\ last.code \in KnownExceptions
          /\ Pre.final_server = 0)

\* C23: the soft-skip sentinel is absorbing: a call that takes a skip branch
\* leaves the status at -1, and a status of -1 is still -1 after every later
\* call, whatever the defer/bounce calls return.
C23_SoftSkipSentinelAbsorbs ==
    /\ TookSkipBranch => status = -1
    /\ Pre.status = -1 => status = -1

\* after a skip, a call with a failed and a successful defer/bounce
C23_Witness ==
    /\ Pre.status = -1
    /\ \E i \in 1..Len(calls) : calls[i].fn \in Appends /\ calls[i].result = 1
    /\ \E i \in 1..Len(calls) : calls[i].fn \in Appends /\ calls[i].result = 0
    /\ status = -1

\* ------------------------------------------------------------------ C24
\* C24: smtp_site_fail, smtp_mesg_fail and smtp_rcpt_fail treat a code that
\* is neither 4xx nor 5xx like a hard failure: whatever the final server flag
\* is, the affected recipients are bounced (not deferred, not skipped),
\* smtp_site_fail/smtp_mesg_fail raise the flag, smtp_rcpt_fail leaves it,
\* and the protocol error flag is raised.
C24_NeitherCodeIsHard ==
    (CodeCall /\ FirstDigit(last.code) \notin {4, 5}) =>
        /\ SiteOrMesg =>
              /\ \A r \in PendingIn(Pre.offset) :
                    /\ AppendsFor(r) # {}
                    /\ \A i \in AppendsFor(r) : calls[i].fn = "bounce_append"
              /\ final_server = 1
        /\ last.op = "smtp_rcpt_fail" =>
              /\ AppendsFor(last.rcpt) # {}
              /\ \A i \in AppendsFor(last.rcpt) : calls[i].fn = "bounce_append"
              /\ final_server = Pre.final_server
        /\ \A i \in 1..Len(calls) : calls[i].fn # "defer_append"
        /\ MAIL_ERROR_PROTOCOL \in error_mask

C24_Witness ==
    /\ last.op = "smtp_site_fail"
    /\ last.code = 354
    /\ Pre.final_server = 0
    /\ final_server = 1
    /\ \A r \in Rcpts : \E i \in AppendsFor(r) : calls[i].fn = "bounce_append"
    /\ MAIL_ERROR_PROTOCOL \notin Pre.error_mask
    /\ MAIL_ERROR_PROTOCOL \in error_mask

\* ------------------------------------------------------------------ C25
\* the last call ran the disposition branch of smtp_site_fail or
\* smtp_mesg_fail and every defer/bounce call returned 0
DisposedAllOk ==
    /\ SiteOrMesg
    /\ ~SoftNotFinal
    /\ \A i \in 1..Len(calls) : calls[i].result = 0

\* C25: after such a call, the same entry point called again with the same
\* code makes no defer, bounce or deliver_completed call and leaves every
\* marker, the final server flag, the hop status, the status and the error
\* mask unchanged.
C25_DispositionIdempotent ==
    [][(DisposedAllOk /\ last'.op = last.op /\ last'.code = last.code
          /\ ncalls' = ncalls + 1) =>
            /\ calls' = <<>>
            /\ offset' = offset
            /\ final_server' = final_server
            /\ hop_status' = hop_status
            /\ status' = status
            /\ error_mask' = error_mask]_vars

\* the second of two soft smtp_site_fail calls on the final server, the first
\* having deferred everybody and cached its reason
C25_Witness ==
    /\ ncalls = 2
    /\ last.op = "smtp_site_fail"
    /\ SMTP_SOFT(last.code)
    /\ Pre.final_server = 1
    /\ Pre.hop_status # NULL
    /\ PendingIn(Pre.offset) = {}
    /\ \A r \in Rcpts : records[r] = 1
    /\ calls = <<>>
    /\ status = 0
====
